---- MODULE Spec2Model ----
(***************************************************************************)
(* Quiz server: upload-and-generate, background fill, answer submission,   *)
(* progress update, review selection and usage tracking, over the two      *)
(* storage backends of the repository (CSVStorage and DatabaseStorage).    *)
(*                                                                         *)
(* The record store is modelled at the level of parsed records: a          *)
(* collection is the sequence of its rows in file (insertion) order and a  *)
(* row is the record its fields parse to.  What distinguishes the backends *)
(* is kept: CSVStorage rewrites a whole session row from an earlier read,  *)
(* scans questions in file order and records the raw verdict in the usage  *)
(* ledger; DatabaseStorage updates single columns atomically, orders by    *)
(* useCount/lastUsed and records wasCorrect && attempts === 1.             *)
(***************************************************************************)
EXTENDS Integers, Sequences, FiniteSets, TLC

\* ---------------------------------------------------------------- bounds
MaxUploads  == 1
MaxConcurrent == 1
MaxRacing   == 2
MaxAnswers  == 2
MaxProgress == 1
MaxTotal    == 3
MaxGen      == 2
MaxFiles    == 1
MaxUploadFiles == 2
MaxBodyLen  == 3
MaxCallers  == 2
MaxTopicCalls == 3
MaxDrafts   == 2
MaxSubmit   == 3

\* ------------------------------------------------------------- constants
Backends == {"csv", "db"}
Sentinel == "Laedt neue Fragen..."
Combined == "--- Datei 1: ..."
\* totalQuestions values the upload accepts, scaled down from [25, 50, 75, 100]
AllowedTotals == 2..MaxTotal
\* question kinds the generator may produce: a choice question with options
\* a (correct) and b, and an open question with a model answer
Kinds == {"definition", "open"}
\* option ids are one-character texts
OptionIds == {<<"a">>, <<"b">>, <<"c">>, <<"d">>}

VARIABLES backend, questions, usage, sessions, up, ans, prog, hist,
          nUploads, nProgress, req, overlapped, gr, csv, call, topics

vars == <<backend, questions, usage, sessions, up, ans, prog, hist,
          nUploads, nProgress, req, overlapped, gr, csv, call, topics>>

\* the answer requests the server is handling at once, one slot each
Handlers == DOMAIN ans

\* ----------------------------------------------------------- sequences
Range(s) == {s[i] : i \in 1..Len(s)}

Min(a, b) == IF a < b THEN a ELSE b

\* an exchange that only copies s[j] to position i
Swap_copy(s, i, j) == [s EXCEPT ![i] = s[j]]

Swap(s, i, j) == [s EXCEPT ![i] = s[j], ![j] = s[i]]

\* Array.prototype.slice(0, n)
Slice0(s, n) ==
  IF n >= 0 THEN SubSeq(s, 1, Min(n, Len(s)))
  ELSE SubSeq(s, 1, IF Len(s) + n > 0 THEN Len(s) + n ELSE 0)

\* ------------------------------------------------------- question bank
\* options of a stored question, as [id, correct] pairs
OptionsOf(kind) ==
  IF kind = "open" THEN <<>>
  ELSE << [id |-> <<"a">>, correct |-> TRUE],
          [id |-> <<"b">>, correct |-> FALSE] >>

\* CSVStorage.storeQuestion / DatabaseStorage.storeQuestion: a new row with
\* lastUsed null (0) and useCount 0, appended to the collection
StoredRow(question) ==
  [kind |-> question.kind, correctAnswer |-> question.correctAnswer,
   topic |-> "N/A", useCount |-> 0, lastUsed |-> 0]

storeQuestion(qs, question) == Append(qs, StoredRow(question))

\* the Question a storage returns for stored row n
Snapshot(qs, n) ==
  [id |-> <<"stored", n>>, kind |-> qs[n].kind,
   correctAnswer |-> qs[n].correctAnswer, storedQuestionId |-> n,
   isReviewQuestion |-> FALSE]

RECURSIVE CsvScan(_, _, _, _, _)
\* CSVStorage.getReviewQuestions: file order, a row passes when its topic
\* is not excluded, push, and only then compare the length with the limit
CsvScan(qs, excludeTopics, limit, i, acc) ==
  IF i > Len(qs) THEN acc
  ELSE IF qs[i].topic = "" \/ qs[i].topic \notin excludeTopics
       THEN LET acc2 == Append(acc, Snapshot(qs, i))
            IN  IF Len(acc2) >= limit THEN acc2
                ELSE CsvScan(qs, excludeTopics, limit, i + 1, acc2)
       ELSE CsvScan(qs, excludeTopics, limit, i + 1, acc)

CSVgetReviewQuestions(qs, excludeTopics, limit) ==
  { CsvScan(qs, excludeTopics, limit, 1, <<>>) }

\* ORDER BY use_count ASC, last_used ASC: NULL last_used sorts last
DbBefore(x, y) ==
  \/ x.useCount < y.useCount
  \/ /\ x.useCount = y.useCount
     /\ \/ x.lastUsed = y.lastUsed
        \/ (x.lastUsed # 0 /\ y.lastUsed = 0)
        \/ (x.lastUsed # 0 /\ y.lastUsed # 0 /\ x.lastUsed < y.lastUsed)

\* DatabaseStorage.getReviewQuestions: the first `limit` rows of the table
\* in that order (rows that tie come in any order), topics not excluded
DBgetReviewQuestions(qs, excludeTopics, limit) ==
  LET ok  == {n \in 1..Len(qs) :
                excludeTopics = {} \/ qs[n].topic \notin excludeTopics}
      k   == Min(limit, Cardinality(ok))
      pick == {r \in [1..k -> ok] :
                 /\ \A i, j \in 1..k : i < j =>
                      (r[i] # r[j] /\ DbBefore(qs[r[i]], qs[r[j]]))
                 /\ \A i \in 1..k : \A n \in ok \ {r[j] : j \in 1..k} :
                      DbBefore(qs[r[i]], qs[n])}
  IN  { [i \in 1..k |-> Snapshot(qs, r[i])] : r \in pick }

getReviewQuestions(b, qs, excludeTopics, limit) ==
  IF b = "csv" THEN CSVgetReviewQuestions(qs, excludeTopics, limit)
  ELSE DBgetReviewQuestions(qs, excludeTopics, limit)

\* CSVStorage.trackQuestionUsage writes wasCorrect into the
\* wasCorrectFirstTry column as it is
CSVtrackQuestionUsage(u, sessionId, storedQuestionId, wasCorrect, attempts) ==
  Append(u, [sessionId |-> sessionId, storedQuestionId |-> storedQuestionId,
             wasCorrectFirstTry |-> wasCorrect, attemptsCount |-> attempts])

\* DatabaseStorage.trackQuestionUsage: wasCorrect && attempts === 1
DBtrackQuestionUsage(u, sessionId, storedQuestionId, wasCorrect, attempts) ==
  Append(u, [sessionId |-> sessionId, storedQuestionId |-> storedQuestionId,
             wasCorrectFirstTry |-> (wasCorrect /\ attempts = 1),
             attemptsCount |-> attempts])

trackQuestionUsage(b, u, sessionId, storedQuestionId, wasCorrect, attempts) ==
  IF b = "csv"
  THEN CSVtrackQuestionUsage(u, sessionId, storedQuestionId, wasCorrect, attempts)
  ELSE DBtrackQuestionUsage(u, sessionId, storedQuestionId, wasCorrect, attempts)

\* updateQuestionLastUsed: lastUsed = now, useCount + 1 for the row with
\* that id, if there is one
updateQuestionLastUsed(qs, storedQuestionId, now) ==
  [n \in 1..Len(qs) |->
     IF n = storedQuestionId
     THEN [qs[n] EXCEPT !.lastUsed = now, !.useCount = @ + 1]
     ELSE qs[n]]

\* ------------------------------------------------------------ sessions
initialStats ==
  [asked |-> 0, correctFirstTry |-> 0, retries |-> 0, questionAttempts |-> {}]

\* createQuizSession: the new row
NewSession(summaryText, qs) ==
  [summaryText |-> summaryText, questions |-> qs, currentQuestionIndex |-> 0,
   stats |-> initialStats, completed |-> FALSE]

\* a merge that keeps the stats the row has
ApplyUpdates_keepStats(session, updates) ==
  [f \in DOMAIN session |->
     IF f \in DOMAIN updates /\ f # "stats" THEN updates[f] ELSE session[f]]

\* { ...session, ...updates }
ApplyUpdates(session, updates) ==
  [f \in DOMAIN session |->
     IF f \in DOMAIN updates THEN updates[f] ELSE session[f]]

\* ------------------------------------------------------------- grading
\* texts are sequences of characters; String.prototype.toLowerCase
LowerChar(c) == IF c = "A" THEN "a" ELSE IF c = "B" THEN "b" ELSE c

toLowerCase(t) == [i \in 1..Len(t) |-> LowerChar(t[i])]

\* white space as trim sees it: blank and line feed
IsSpace(c) == c \in {" ", "\n"}

RECURSIVE trimStart(_)
trimStart(t) ==
  IF t # <<>> /\ IsSpace(Head(t)) THEN trimStart(Tail(t)) ELSE t

RECURSIVE trimEnd(_)
trimEnd(t) ==
  IF t # <<>> /\ IsSpace(t[Len(t)])
  THEN trimEnd(SubSeq(t, 1, Len(t) - 1)) ELSE t

\* String.prototype.trim
trim(t) == trimEnd(trimStart(t))

\* String.prototype.includes
includes(hay, needle) ==
  \E i \in 0..(Len(hay) - Len(needle)) :
     SubSeq(hay, i + 1, i + Len(needle)) = needle

\* the fallback of the answer route when evaluateOpenAnswer throws
openFallback(answer0, correctAnswer) ==
  LET userAnswer == trim(toLowerCase(answer0))
      correct    == trim(toLowerCase(correctAnswer))
  IN  \/ includes(userAnswer, correct)
      \/ includes(correct, userAnswer)
      \/ Len(userAnswer) >= 20

\* ids of the options marked correct, in option order
correctIds(options) ==
  LET marked == SelectSeq(options, LAMBDA o : o.correct)
  IN  [i \in 1..Len(marked) |-> marked[i].id]

\* gradeChoice without the length test and the converse inclusion
gradeChoice_subset(options, submitted) ==
  \A i \in 1..Len(submitted) : submitted[i] \in Range(correctIds(options))

\* the multiple-choice branch of the answer route
gradeChoice(options, submitted) ==
  LET ids == correctIds(options)
  IN  /\ Len(submitted) = Len(ids)
      /\ \A i \in 1..Len(submitted) : submitted[i] \in Range(ids)
      /\ \A i \in 1..Len(ids) : ids[i] \in Range(submitted)

\* grade without the empty-answer branch
grade_noSkip(kind, options, correctAnswer, answer, ev) ==
  IF kind = "open"
  THEN [isCorrect |-> IF ev = "throw"
                      THEN openFallback(IF answer = <<>> THEN <<>> ELSE answer[1],
                                        correctAnswer)
                      ELSE ev = "true",
        isSkipped |-> FALSE, evaluated |-> TRUE]
  ELSE [isCorrect |-> gradeChoice(options, answer),
        isSkipped |-> FALSE, evaluated |-> FALSE]

\* the verdict of the answer route: [isCorrect, isSkipped, evaluated];
\* ev is what evaluateOpenAnswer does when it is called
grade(kind, options, correctAnswer, answer, ev) ==
  IF Len(answer) = 0
  THEN [isCorrect |-> FALSE, isSkipped |-> TRUE, evaluated |-> FALSE]
  ELSE IF kind = "open"
  THEN [isCorrect |-> IF ev = "throw"
                      THEN openFallback(answer[1], correctAnswer)
                      ELSE ev = "true",
        isSkipped |-> FALSE, evaluated |-> TRUE]
  ELSE [isCorrect |-> gradeChoice(options, answer),
        isSkipped |-> FALSE, evaluated |-> FALSE]

\* updateStats that never counts a retry
updateStats_noRetry(stats, questionId, isCorrect) ==
  IF questionId \notin stats.questionAttempts
  THEN [asked |-> stats.asked + 1,
        correctFirstTry |-> stats.correctFirstTry + (IF isCorrect THEN 1 ELSE 0),
        retries |-> stats.retries,
        questionAttempts |-> stats.questionAttempts \cup {questionId}]
  ELSE stats

\* updateStats counting every later attempt as a retry
updateStats_everyRetry(stats, questionId, isCorrect) ==
  IF questionId \notin stats.questionAttempts
  THEN [asked |-> stats.asked + 1,
        correctFirstTry |-> stats.correctFirstTry + (IF isCorrect THEN 1 ELSE 0),
        retries |-> stats.retries,
        questionAttempts |-> stats.questionAttempts \cup {questionId}]
  ELSE [stats EXCEPT !.retries = @ + 1]

\* the stats update of the answer route
updateStats(stats, questionId, isCorrect) ==
  LET isFirstAttempt == questionId \notin stats.questionAttempts
  IN  IF isFirstAttempt
      THEN [asked |-> stats.asked + 1,
            correctFirstTry |-> stats.correctFirstTry + (IF isCorrect THEN 1 ELSE 0),
            retries |-> stats.retries,
            questionAttempts |-> stats.questionAttempts \cup {questionId}]
      ELSE IF ~isCorrect
      THEN [stats EXCEPT !.retries = @ + 1]
      ELSE stats

\* attempts as the answer route computes it, after the stats update
attemptsOf(stats, questionId) ==
  IF questionId \in stats.questionAttempts THEN 2 ELSE 1

\* ------------------------------------------------------------- shuffle
RECURSIVE FisherYates(_, _)
\* the lists the shuffle loop can leave: i runs from the last index down
\* to the second, j is any index up to i
FisherYates(s, i) ==
  IF i <= 1 THEN {s}
  ELSE UNION { FisherYates(Swap(s, i, j), i - 1) : j \in 1..i }

\* ----------------------------------------------------------- processes
UpIdle == [pc |-> "idle"]

Idle == [pc |-> "idle"]

\* the model answer of an open question, and what a client may submit
ModelAnswer == <<"A", "b">>

\* the value undefined of a question without correctAnswer; no text of
\* characters equals it
Undefined == <<"undefined">>

LongText == [i \in 1..20 |-> "x"]

ChoiceInputs == { <<>>, << <<"a">> >>, << <<"b">> >> }

OpenInputs == { <<>>, << <<"x">> >>, << LongText >> }

AnswerInputs(kind) == IF kind = "open" THEN OpenInputs ELSE ChoiceInputs

EvalOutcomes == {"true", "false", "throw"}

\* the submissions so far for a question id of a session (history)
Submissions(sessionId, questionId) ==
  Cardinality({r \in hist : r.sessionId = sessionId /\ r.questionId = questionId})

\* questions.find((q) => q.id === questionId)
Find(qs, questionId) ==
  qs[CHOOSE i \in 1..Len(qs) :
       qs[i].id = questionId /\ \A j \in 1..(i - 1) : qs[j].id # questionId]

Init ==
  /\ backend \in Backends
  /\ questions = <<>>
  /\ usage = <<>>
  /\ sessions = <<>>
  /\ up = UpIdle
  /\ ans = [h \in 1..MaxConcurrent |-> Idle]
  /\ prog = Idle
  /\ hist = {}
  /\ nUploads = 0
  /\ nProgress = 0
  /\ req = <<>>
  /\ overlapped = FALSE
  /\ gr = Idle
  /\ csv = Idle
  /\ call = Idle
  /\ topics = Idle

\* POST /api/upload-and-generate up to the first generator call: the
\* parameters are parsed and validated, the first file is stored
UploadStart(totalQuestions, files) ==
  /\ up.pc = "idle"
  /\ nUploads < MaxUploads
  /\ nUploads' = nUploads + 1
  /\ up' = [pc |-> "generating", totalQuestions |-> totalQuestions,
            files |-> files, index |-> 1, allQuestions |-> <<>>,
            responded |-> FALSE, failed |-> FALSE, startLen |-> Len(sessions),
            startStored |-> Len(questions)]
  /\ UNCHANGED <<backend, questions, usage, sessions, ans, prog, hist,
                 nProgress, req, overlapped, gr, csv, call, topics>>

\* generateQuestionsFromText, the map after the filter: a question keeps
\* the id the completion gave it, one without id gets q<position>
cleanQuestions(raw) ==
  [k \in 1..Len(raw) |->
     [id |-> IF raw[k].id = <<>> THEN <<"q", k>> ELSE raw[k].id,
      kind |-> raw[k].kind, correctAnswer |-> raw[k].correctAnswer]]

\* the session questions built from the generator's questions of one file
FileQuestions(index, generated, firstId) ==
  [k \in 1..Len(generated) |->
     [id |-> <<"f", index>> \o generated[k].id, kind |-> generated[k].kind,
      correctAnswer |-> generated[k].correctAnswer,
      storedQuestionId |-> firstId + k, isReviewQuestion |-> FALSE]]

RECURSIVE StoreAll(_, _)
StoreAll(qs, generated) ==
  IF generated = <<>> THEN qs
  ELSE StoreAll(storeQuestion(qs, Head(generated)), Tail(generated))

\* an early return with an error status; failed, startLen, startStored and
\* index remember that the request met a failure, how many sessions and
\* stored questions existed when it began and which file it was at (0:
\* before the first)
errorExit(u, status) ==
  [pc |-> "idle", status |-> status, failed |-> TRUE, startLen |-> u.startLen,
   startStored |-> u.startStored, index |-> u.index]

\* the request is refused before any file is read: no files, question
\* types that do not parse or are empty, a totalQuestions value not allowed
UploadRejected ==
  /\ up.pc = "idle"
  /\ nUploads < MaxUploads
  /\ nUploads' = nUploads + 1
  /\ up' = errorExit([startLen |-> Len(sessions),
                      startStored |-> Len(questions), index |-> 0], 400)
  /\ UNCHANGED <<backend, questions, usage, sessions, ans, prog, hist,
                 nProgress, req, overlapped, gr, csv, call, topics>>

\* the file at up.index is empty or shorter than 100 characters
FileRejected ==
  /\ up.pc = "generating"
  /\ up' = errorExit(up, 400)
  /\ UNCHANGED <<backend, questions, usage, sessions, ans, prog, hist,
                 nUploads, nProgress, req, overlapped, gr, csv, call, topics>>

\* a generation error that does not end the request
afterGenerationError_ignored(u) ==
  [u EXCEPT !.failed = TRUE, !.index = @ + 1,
            !.pc = IF u.index < u.files THEN "generating" ELSE "collected"]

\* if (generationResult.error) return res.status(500)
afterGenerationError(u) == errorExit(u, 500)

\* generateQuestionsFromText returns an error: the route answers 500
GeneratorFails ==
  /\ up.pc = "generating"
  /\ up' = afterGenerationError(up)
  /\ UNCHANGED <<backend, questions, usage, sessions, ans, prog, hist,
                 nUploads, nProgress, req, overlapped, gr, csv, call, topics>>

\* generateQuestionsFromText returns questions: each is stored and added to
\* allQuestions; then the next file is generated, or the loop ends
GeneratorReturns(raw) ==
  /\ up.pc = "generating"
  /\ questions' = StoreAll(questions, cleanQuestions(raw))
  /\ up' = [up EXCEPT
              !.allQuestions = @ \o FileQuestions(up.index, cleanQuestions(raw),
                                                  Len(questions)),
              !.index = @ + 1,
              !.pc = IF up.index < up.files THEN "generating" ELSE "collected"]
  /\ UNCHANGED <<backend, usage, sessions, ans, prog, hist,
                 nUploads, nProgress, req, overlapped, gr, csv, call, topics>>

reviewQuestionsTarget(totalQuestions) == totalQuestions \div 2

\* after the loop: the review questions are selected and marked, the
\* session is created with them and the sentinel, the response is sent and
\* the background task is scheduled
UploadCreateSession ==
  /\ up.pc = "collected"
  /\ \E reviewQuestions \in
          getReviewQuestions(backend, questions, {},
                             reviewQuestionsTarget(up.totalQuestions)) :
     LET markedReviewQuestions ==
           [i \in 1..Len(reviewQuestions) |->
              [reviewQuestions[i] EXCEPT !.isReviewQuestion = TRUE]]
     IN  /\ sessions' = Append(sessions,
                               NewSession(Sentinel, markedReviewQuestions))
         /\ up' = [pc |-> "fill", totalQuestions |-> up.totalQuestions,
                   allQuestions |-> up.allQuestions,
                   markedReviewQuestions |-> markedReviewQuestions,
                   sessionId |-> Len(sessions) + 1, responded |-> TRUE]
         /\ req' = Append(req, [totalQuestions |-> up.totalQuestions,
                                 generated |-> Len(up.allQuestions),
                                 review |-> markedReviewQuestions,
                                 fill |-> "pending"])
  /\ UNCHANGED <<backend, questions, usage, ans, prog, hist,
                 nUploads, nProgress, overlapped, gr, csv, call, topics>>

\* allSessionQuestions without the truncation of the new questions
allSessionQuestions_noSlice(totalQuestions, markedReviewQuestions, allQuestions) ==
  markedReviewQuestions \o allQuestions

\* the list the background task persists, before the shuffle
allSessionQuestions(totalQuestions, markedReviewQuestions, allQuestions) ==
  LET newQuestionsNeeded == totalQuestions - Len(markedReviewQuestions)
      limitedNewQuestions == Slice0(allQuestions, newQuestionsNeeded)
  IN  markedReviewQuestions \o limitedNewQuestions

\* the background task: truncate, combine, shuffle, updateQuizSession.
\* DatabaseStorage sets the two columns; CSVStorage first reads the row
FillRun ==
  /\ up.pc = "fill"
  /\ \E shuffled \in
          FisherYates(allSessionQuestions(up.totalQuestions,
                                          up.markedReviewQuestions,
                                          up.allQuestions),
                      Len(allSessionQuestions(up.totalQuestions,
                                              up.markedReviewQuestions,
                                              up.allQuestions))) :
     LET updates == [summaryText |-> Combined, questions |-> shuffled]
     IN  IF backend = "db"
         THEN /\ sessions' = [sessions EXCEPT ![up.sessionId] =
                                ApplyUpdates(@, updates)]
              /\ req' = [req EXCEPT ![up.sessionId].fill = "done"]
              /\ up' = [pc |-> "idle", status |-> 200]
         ELSE /\ sessions' = sessions
              /\ req' = req
              /\ up' = [pc |-> "fillwrite", sessionId |-> up.sessionId,
                        updates |-> updates,
                        session |-> sessions[up.sessionId]]
  /\ UNCHANGED <<backend, questions, usage, ans, prog, hist,
                 nUploads, nProgress, overlapped, gr, csv, call, topics>>

\* CSVStorage.updateQuizSession, second half: the row is rewritten from
\* the session read before
FillWrite ==
  /\ up.pc = "fillwrite"
  /\ sessions' = [sessions EXCEPT ![up.sessionId] =
                    ApplyUpdates(up.session, up.updates)]
  /\ req' = [req EXCEPT ![up.sessionId].fill = "done"]
  /\ up' = [pc |-> "idle", status |-> 200]
  /\ UNCHANGED <<backend, questions, usage, ans, prog, hist,
                 nUploads, nProgress, overlapped, gr, csv, call, topics>>

\* updateQuizSession fails in the background task: the catch logs the
\* error, the session row is left as it is
FillFails ==
  /\ up.pc \in {"fill", "fillwrite"}
  /\ req' = [req EXCEPT ![up.sessionId].fill = "failed"]
  /\ up' = [pc |-> "idle", status |-> 200]
  /\ UNCHANGED <<backend, questions, usage, sessions, ans, prog, hist,
                 nUploads, nProgress, overlapped, gr, csv, call, topics>>

\* isLoading as a plain test for an empty questions list
statusOf_emptyList(session) ==
  [isLoading |-> session.questions = <<>>,
   hasNewQuestions |->
     \E i \in 1..Len(session.questions) : ~session.questions[i].isReviewQuestion,
   totalQuestions |-> Len(session.questions),
   reviewQuestions |->
     Cardinality({i \in 1..Len(session.questions) :
                    session.questions[i].isReviewQuestion}),
   newQuestions |->
     Cardinality({i \in 1..Len(session.questions) :
                    ~session.questions[i].isReviewQuestion})]

\* GET /api/quiz/:sessionId/status for a session that exists
statusOf(session) ==
  [isLoading |-> session.summaryText = Sentinel,
   hasNewQuestions |->
     \E i \in 1..Len(session.questions) : ~session.questions[i].isReviewQuestion,
   totalQuestions |-> Len(session.questions),
   reviewQuestions |->
     Cardinality({i \in 1..Len(session.questions) :
                    session.questions[i].isReviewQuestion}),
   newQuestions |->
     Cardinality({i \in 1..Len(session.questions) :
                    ~session.questions[i].isReviewQuestion})]

\* a question id no session question has
UnknownQuestionId == <<"none", 0>>

\* what getQuizSession and questions.find of the answer route find:
\* nothing, the session only, or the session and the question
found(ss, sessionId, questionId) ==
  IF sessionId \notin 1..Len(ss) THEN "none"
  ELSE IF \A i \in 1..Len(ss[sessionId].questions) :
            ss[sessionId].questions[i].id # questionId
  THEN "session"
  ELSE "question"

\* the lookups of the answer route with 500 for a missing question
answerLookup_questionError(ss, sessionId, questionId) ==
  CASE found(ss, sessionId, questionId) = "none" -> 404
    [] found(ss, sessionId, questionId) = "session" -> 500
    [] OTHER -> 200

\* the status the lookups end the request with, 200 when they let it go on
answerLookup(ss, sessionId, questionId) ==
  IF found(ss, sessionId, questionId) = "question" THEN 200 ELSE 404

\* a handler that is not in the middle of a request; after a request it
\* holds the response it sent
AtRest(h) == ans[h].pc \in {"idle", "sent"}

\* POST /api/quiz/:sessionId/answer when a lookup finds nothing
AnswerNotFound(h, sessionId, questionId) ==
  /\ AtRest(h)
  /\ \A g \in Handlers : g < h => ~AtRest(g)
  /\ Cardinality(hist) < MaxAnswers
  /\ answerLookup(sessions, sessionId, questionId) # 200
  /\ ans' = [ans EXCEPT ![h] =
               [pc |-> "sent",
                status |-> answerLookup(sessions, sessionId, questionId),
                found |-> found(sessions, sessionId, questionId)]]
  /\ UNCHANGED <<backend, questions, usage, sessions, up, prog, hist,
                 nUploads, nProgress, req, overlapped, gr, csv, call, topics>>

\* evaluateOpenAnswer is called and throws
evalFailed(currentQuestion, answer, ev) ==
  /\ Len(answer) # 0
  /\ currentQuestion.kind = "open"
  /\ ev = "throw"

\* the fallback calls currentQuestion.correctAnswer.toLowerCase(): a
\* TypeError when the question has no correctAnswer
fallbackThrows(currentQuestion, answer, ev) ==
  /\ evalFailed(currentQuestion, answer, ev)
  /\ currentQuestion.correctAnswer = Undefined

\* POST /api/quiz/:sessionId/answer up to the stats write: the session is
\* read, the question found, the answer graded, the new stats computed;
\* an exception of the fallback goes to the outer catch, which answers 500
AnswerRead(h, sessionId, questionId, answer, ev) ==
  /\ AtRest(h)
  /\ \A g \in Handlers : g < h => ~AtRest(g)
  /\ Cardinality(hist) < MaxAnswers
  /\ answerLookup(sessions, sessionId, questionId) = 200
  /\ LET session == sessions[sessionId]
         currentQuestion == Find(session.questions, questionId)
         verdict == grade(currentQuestion.kind,
                          OptionsOf(currentQuestion.kind),
                          currentQuestion.correctAnswer, answer, ev)
         stats == updateStats(session.stats, questionId, verdict.isCorrect)
     IN  IF fallbackThrows(currentQuestion, answer, ev)
         THEN /\ ans' = [ans EXCEPT ![h] =
                           [pc |-> "sent", status |-> 500,
                            found |-> "question"]]
              /\ hist' = hist
         ELSE /\ ans' = [ans EXCEPT ![h] =
                           [pc |-> "update", sessionId |-> sessionId,
                            questionId |-> questionId,
                            storedQuestionId |-> currentQuestion.storedQuestionId,
                            n |-> Submissions(sessionId, questionId) + 1,
                            answer |-> answer, verdict |-> verdict,
                            evalFailed |-> evalFailed(currentQuestion, answer, ev),
                            read |-> session.stats, stats |-> stats]]
              /\ hist' = hist \cup
                           {[sessionId |-> sessionId, questionId |-> questionId,
                             storedQuestionId |-> currentQuestion.storedQuestionId,
                             n |-> Submissions(sessionId, questionId) + 1,
                             isCorrect |-> verdict.isCorrect]}
  /\ overlapped' = (overlapped \/ \E g \in Handlers : ~AtRest(g))
  /\ UNCHANGED <<backend, questions, usage, sessions, up, prog,
                 nUploads, nProgress, req, gr, csv, call, topics>>

\* storage.updateQuizSession(sessionId, { stats })
AnswerUpdate(h) ==
  /\ ans[h].pc = "update"
  /\ IF backend = "db"
     THEN /\ sessions' = [sessions EXCEPT ![ans[h].sessionId] =
                            ApplyUpdates(@, [stats |-> ans[h].stats])]
          /\ ans' = [ans EXCEPT ![h].pc = "track"]
     ELSE /\ sessions' = sessions
          /\ ans' = [ans EXCEPT ![h] =
                       [pc |-> "write", session |-> sessions[ans[h].sessionId]]
                       @@ ans[h]]
  /\ UNCHANGED <<backend, questions, usage, up, prog, hist,
                 nUploads, nProgress, req, overlapped, gr, csv, call, topics>>

\* CSVStorage.updateQuizSession, second half
AnswerWrite(h) ==
  /\ ans[h].pc = "write"
  /\ sessions' = [sessions EXCEPT ![ans[h].sessionId] =
                    ApplyUpdates(ans[h].session, [stats |-> ans[h].stats])]
  /\ ans' = [ans EXCEPT ![h] =
               [f \in DOMAIN ans[h] \ {"session"} |->
                  IF f = "pc" THEN "track" ELSE ans[h][f]]]
  /\ UNCHANGED <<backend, questions, usage, up, prog, hist,
                 nUploads, nProgress, req, overlapped, gr, csv, call, topics>>

\* the rest of the answer route: trackQuestionUsage, updateQuestionLastUsed
\* and the response. DatabaseStorage updates the row in one statement;
\* CSVStorage.updateQuestionLastUsed reads the questions file here and
\* rewrites it in a later step
AnswerTrack(h) ==
  /\ ans[h].pc = "track"
  /\ usage' = trackQuestionUsage(backend, usage, ans[h].sessionId,
                                 ans[h].storedQuestionId,
                                 ans[h].verdict.isCorrect,
                                 attemptsOf(ans[h].stats, ans[h].questionId))
  /\ IF backend = "db"
     THEN /\ questions' = updateQuestionLastUsed(questions,
                                                 ans[h].storedQuestionId,
                                                 Len(usage) + 1)
          /\ ans' = [ans EXCEPT ![h] =
                       [pc |-> "sent", status |-> 200, found |-> "question"]]
     ELSE /\ questions' = questions
          /\ ans' = [ans EXCEPT ![h] =
                       [pc |-> "touch", content |-> questions] @@ ans[h]]
  /\ UNCHANGED <<backend, sessions, up, prog, hist, nUploads, nProgress, req, overlapped, gr, csv, call, topics>>

\* CSVStorage.updateQuestionLastUsed, second half: the whole questions file
\* is rewritten from the content read before, then the response is sent
AnswerTouch(h) ==
  /\ ans[h].pc = "touch"
  /\ questions' = updateQuestionLastUsed(ans[h].content,
                                         ans[h].storedQuestionId, Len(usage))
  /\ ans' = [ans EXCEPT ![h] =
               [pc |-> "sent", status |-> 200, found |-> "question"]]
  /\ UNCHANGED <<backend, usage, sessions, up, prog, hist,
                 nUploads, nProgress, req, overlapped, gr, csv, call, topics>>

\* POST /api/quiz/:sessionId/progress
ProgressStart(sessionId, updates) ==
  /\ prog.pc \in {"idle", "sent"}
  /\ nProgress < MaxProgress
  /\ nProgress' = nProgress + 1
  /\ IF backend = "db"
     THEN /\ sessions' = [sessions EXCEPT ![sessionId] =
                            ApplyUpdates(@, updates)]
          /\ prog' = [pc |-> "sent", status |-> 200, known |-> TRUE]
     ELSE /\ sessions' = sessions
          /\ prog' = [pc |-> "write", sessionId |-> sessionId,
                      updates |-> updates, session |-> sessions[sessionId]]
  /\ UNCHANGED <<backend, questions, usage, up, ans, hist,
                 nUploads, req, overlapped, gr, csv, call, topics>>

\* CSVStorage.updateQuizSession, second half
ProgressWrite ==
  /\ prog.pc = "write"
  /\ sessions' = [sessions EXCEPT ![prog.sessionId] =
                    ApplyUpdates(prog.session, prog.updates)]
  /\ prog' = [pc |-> "sent", status |-> 200, known |-> TRUE]
  /\ UNCHANGED <<backend, questions, usage, up, ans, hist,
                 nUploads, nProgress, req, overlapped, gr, csv, call, topics>>

\* updateQuizSession for a session id no row has: DatabaseStorage returns
\* undefined (no row came back from the UPDATE) and the route answers 404;
\* CSVStorage throws 'Quiz session not found' and the route's catch
\* answers 500
updateMissingSession(b) == IF b = "db" THEN 404 ELSE 500

\* POST /api/quiz/:sessionId/progress for a session that does not exist
ProgressMissing(sessionId) ==
  /\ prog.pc \in {"idle", "sent"}
  /\ nProgress < MaxProgress
  /\ sessionId \notin 1..Len(sessions)
  /\ nProgress' = nProgress + 1
  /\ prog' = [pc |-> "sent", status |-> updateMissingSession(backend),
              known |-> FALSE]
  /\ UNCHANGED <<backend, questions, usage, sessions, up, ans, hist,
                 nUploads, req, overlapped, gr, csv, call, topics>>

\* what a client posts as progress: the next index, or completion
ProgressInputs(session) ==
  { [currentQuestionIndex |-> session.currentQuestionIndex + 1],
    [completed |-> TRUE] }

\* ids a completion may give a question: none, or q2
CompletionIds == { <<>>, <<"q", 2>> }

\* the completion's questions for one file that pass the filter
\* a completion's question: id and correctAnswer are optional
\* (shared/schema.ts); a choice question is drawn with or without an id,
\* an open question with or without a correctAnswer
CompletionQuestions ==
  { q \in [kind : Kinds, id : CompletionIds,
           correctAnswer : {ModelAnswer, Undefined}] :
      /\ q.kind # "open" => q.correctAnswer = Undefined
      /\ q.kind = "open" => q.id = <<>> }

Completions ==
  UNION { [1..n -> CompletionQuestions] : n \in 1..MaxGen }

Next ==
  \/ \E t \in AllowedTotals, f \in 1..MaxFiles : UploadStart(t, f)
  \/ UploadRejected
  \/ FileRejected
  \/ GeneratorFails
  \/ \E raw \in Completions : GeneratorReturns(raw)
  \/ UploadCreateSession
  \/ FillRun
  \/ FillWrite
  \/ FillFails
  \/ \E h \in Handlers, sessionId \in 1..Len(sessions) :
       \E i \in 1..Len(sessions[sessionId].questions) :
         \E answer \in AnswerInputs(sessions[sessionId].questions[i].kind),
            ev \in EvalOutcomes :
           AnswerRead(h, sessionId, sessions[sessionId].questions[i].id,
                      answer, ev)
  \/ \E h \in Handlers, sessionId \in 1..(Len(sessions) + 1) :
       AnswerNotFound(h, sessionId, UnknownQuestionId)
  \/ \E h \in Handlers : AnswerUpdate(h)
  \/ \E h \in Handlers : AnswerWrite(h)
  \/ \E h \in Handlers : AnswerTrack(h)
  \/ \E h \in Handlers : AnswerTouch(h)
  \/ \E sessionId \in 1..Len(sessions) :
       \E u \in ProgressInputs(sessions[sessionId]) :
         ProgressStart(sessionId, u)
  \/ ProgressWrite
  \/ ProgressMissing(Len(sessions) + 1)

Spec == Init /\ [][Next]_vars

\* ------------------------------------------------- grading, on its own
\* a specification that draws a question and an answer and grades it
OptionOrder == << <<"a">>, <<"b">>, <<"c">>, <<"d">> >>

\* the options with ids in present, those in marked being correct
OptionsFrom(present, marked) ==
  LET ids == SelectSeq(OptionOrder, LAMBDA o : o \in present)
  IN  [i \in 1..Len(ids) |-> [id |-> ids[i], correct |-> ids[i] \in marked]]

GradeOptions ==
  { OptionsFrom(present, marked) :
      present \in (SUBSET OptionIds) \ {{}}, marked \in SUBSET OptionIds }

SubmittedLists == UNION { [1..n -> OptionIds] : n \in 0..MaxSubmit }

GradeTexts == { <<>>, <<" ">>, <<"a">>, <<"x">>, <<" ", "A", "B", " ">>, LongText }

GradeInputs ==
  { [pc |-> "input", kind |-> "definition", options |-> o, answer |-> a,
     ev |-> "true"] : o \in GradeOptions, a \in SubmittedLists }
  \cup
  { [pc |-> "input", kind |-> "open", options |-> <<>>, answer |-> a,
     ev |-> e] : a \in {<<>>} \cup {<<t>> : t \in GradeTexts},
                 e \in EvalOutcomes }

GradeInit ==
  /\ backend = "db"
  /\ questions = <<>>
  /\ usage = <<>>
  /\ sessions = <<>>
  /\ up = UpIdle
  /\ ans = [h \in 1..MaxConcurrent |-> Idle]
  /\ prog = Idle
  /\ hist = {}
  /\ nUploads = 0
  /\ nProgress = 0
  /\ req = <<>>
  /\ overlapped = FALSE
  /\ gr \in GradeInputs
  /\ csv = Idle
  /\ call = Idle
  /\ topics = Idle

\* the grading branch of the answer route applied to the drawn input
GradeApply ==
  /\ gr.pc = "input"
  /\ gr' = [pc |-> "done", kind |-> gr.kind, options |-> gr.options,
            answer |-> gr.answer, ev |-> gr.ev,
            verdict |-> grade(gr.kind, gr.options, ModelAnswer, gr.answer,
                              gr.ev)]
  /\ UNCHANGED <<backend, questions, usage, sessions, up, ans, prog, hist,
                 nUploads, nProgress, req, overlapped, csv, call, topics>>

GradeNext == GradeApply

SpecGrade == GradeInit /\ [][GradeNext]_vars

\* ------------------------------------------------------ review pool
\* usage events of a stored question, and those recorded as correct
TimesAsked(u, n) ==
  Cardinality({i \in 1..Len(u) : u[i].storedQuestionId = n})

CorrectCount(u, n) ==
  Cardinality({i \in 1..Len(u) :
                 u[i].storedQuestionId = n /\ u[i].wasCorrectFirstTry})

\* getReviewPoolStats: the stored questions with a usage event and fewer
\* than 2 correct ones
getReviewPoolStats(qs, u) ==
  [total |-> Cardinality({n \in 1..Len(qs) :
                            TimesAsked(u, n) >= 1 /\ CorrectCount(u, n) < 2})]

\* history: the submissions against a stored question, and the correct ones
Answered(n) == Cardinality({r \in hist : r.storedQuestionId = n})

AnsweredCorrectly(n) ==
  Cardinality({r \in hist : r.storedQuestionId = n /\ r.isCorrect})

Quiescent == \A h \in Handlers : AtRest(h)

ReviewLimits == 1..reviewQuestionsTarget(MaxTotal)

\* --------------------------------------------------------------- claims

C2_OnlyUsedQuestions ==
  \A limit \in ReviewLimits :
    \A r \in getReviewQuestions(backend, questions, {}, limit) :
      \A i \in 1..Len(r) : TimesAsked(usage, r[i].storedQuestionId) >= 1

\* C3: the upload request has sent its response before any question
\* generation for its files runs, so a generation call that is pending (or
\* hangs) never holds the response back.
C3_ResponseBeforeGeneration ==
  up.pc = "generating" => up.responded

\* the step in which the background fill is persisted
FillPersists ==
  /\ up.pc \in {"fill", "fillwrite"}
  /\ up'.pc = "idle"
  /\ req'[up.sessionId].fill = "done"

WrongThenRight(h) ==
  /\ ans[h].pc \in {"update", "write", "track", "touch"}
  /\ ans[h].n = 2
  /\ ans[h].verdict.isCorrect
  /\ \E r \in hist : /\ r.sessionId = ans[h].sessionId
                     /\ r.questionId = ans[h].questionId
                     /\ r.n = 1
                     /\ ~r.isCorrect

\* C6 as stated: first incorrect, then correct, adds 1 to retries and leaves
\* correctFirstTry as it was.
C6_Original ==
  \A h \in Handlers :
    (WrongThenRight(h) /\ ans[h].questionId \in ans[h].read.questionAttempts) =>
      /\ ans[h].stats.retries = ans[h].read.retries + 1
      /\ ans[h].stats.correctFirstTry = ans[h].read.correctFirstTry

\* C6 amended: the second, correct submission of a question it finds marked
\* as attempted leaves retries, correctFirstTry and asked as it read them.
C6_CorrectRetryChangesNothing ==
  \A h \in Handlers :
    (WrongThenRight(h) /\ ans[h].questionId \in ans[h].read.questionAttempts) =>
      /\ ans[h].stats.retries = ans[h].read.retries
      /\ ans[h].stats.correctFirstTry = ans[h].read.correctFirstTry
      /\ ans[h].stats.asked = ans[h].read.asked

C6_Witness ==
  \E h \in Handlers :
    /\ WrongThenRight(h)
    /\ ans[h].questionId \in ans[h].read.questionAttempts
    /\ ans[h].pc = "track"

\* C7: with no submission in flight, the review pool total is the number of
\* stored questions answered at least once and answered correctly fewer
\* than twice (0 before any answer, 1 after one incorrect answer, 0 again
\* after two correct answers to that question).
C7_PoolTotalFollowsAnswers ==
  Quiescent =>
    getReviewPoolStats(questions, usage).total =
      Cardinality({n \in 1..Len(questions) :
                     Answered(n) >= 1 /\ AnsweredCorrectly(n) < 2})

\* the ids of the options marked correct, as a set, and their number
CorrectSet(options) ==
  {options[i].id : i \in {j \in 1..Len(options) : options[j].correct}}

NumCorrect(options) ==
  Cardinality({j \in 1..Len(options) : options[j].correct})

\* C8 as stated: a choice answer is graded correct exactly when the set of
\* submitted ids is the set of ids marked correct.
C8_Original ==
  (gr.pc = "done" /\ gr.kind # "open") =>
    (gr.verdict.isCorrect <=> Range(gr.answer) = CorrectSet(gr.options))

\* C8 amended: a choice answer is graded correct exactly when the list is
\* not empty, has as many entries as there are options marked correct, and
\* its set of ids is the set of ids marked correct.
C8_ExactSelection ==
  (gr.pc = "done" /\ gr.kind # "open") =>
    (gr.verdict.isCorrect <=>
       /\ Len(gr.answer) > 0
       /\ Len(gr.answer) = NumCorrect(gr.options)
       /\ Range(gr.answer) = CorrectSet(gr.options))

C8_Witness ==
  /\ gr.pc = "done"
  /\ gr.kind # "open"
  /\ CorrectSet(gr.options) = {<<"a">>, <<"b">>}
  /\ {gr.options[i].id : i \in 1..Len(gr.options)} = OptionIds
  /\ gr.answer = << <<"a">>, <<"b">> >>
  /\ gr.verdict.isCorrect

\* the step in which handler h has its stats written to the session
StatsWritten(h) ==
  /\ ans[h].pc \in {"update", "write"}
  /\ ans'[h].pc = "track"

\* C9: a submission with an empty answer is graded incorrect and skipped
\* for every question type, the evaluator is not called, and the stats it
\* writes count it as an attempt: the question is marked, and asked is one
\* more than read when the question was not marked before.
C9_EmptyAnswerSkips ==
  [][\A h \in Handlers :
       (StatsWritten(h) /\ ans[h].answer = <<>>) =>
         /\ ~ans[h].verdict.isCorrect
         /\ ans[h].verdict.isSkipped
         /\ ~ans[h].verdict.evaluated
         /\ ans[h].questionId \in
              sessions'[ans[h].sessionId].stats.questionAttempts
         /\ (ans[h].questionId \notin ans[h].read.questionAttempts =>
               sessions'[ans[h].sessionId].stats.asked = ans[h].read.asked + 1)
    ]_vars

C9_Witness ==
  \E h \in Handlers :
    /\ ans[h].pc = "track"
    /\ ans[h].answer = <<>>
    /\ ans[h].n = 1
    /\ Find(sessions[ans[h].sessionId].questions, ans[h].questionId).kind = "open"
    /\ sessions[ans[h].sessionId].stats.asked = ans[h].read.asked + 1

\* the review questions of a list of session questions
ReviewCount(qs) == Cardinality({i \in 1..Len(qs) : qs[i].isReviewQuestion})

C11_UniqueQuestionIds ==
  \A s \in 1..Len(sessions) :
    \A i, j \in 1..Len(sessions[s].questions) :
      i # j => sessions[s].questions[i].id # sessions[s].questions[j].id

\* ------------------------------------- sessions.csv, character by character
\* a text is a sequence of characters; a name or a number without comma,
\* quote or line feed is written as one character
MaxCsvSessions == 1

\* storage calls made in one run
MaxCsvOps == 3

\* the positions of character c in a text, and the k-th of a set of positions
Positions(t, c) == {i \in 1..Len(t) : t[i] = c}

Kth(ps, k) == CHOOSE p \in ps : Cardinality({q \in ps : q < p}) = k - 1

\* the pieces of a text between the cut positions, cuts left out
Pieces(t, cuts) ==
  [k \in 1..(Cardinality(cuts) + 1) |->
     SubSeq(t, IF k = 1 THEN 1 ELSE Kth(cuts, k - 1) + 1,
               IF k > Cardinality(cuts) THEN Len(t) ELSE Kth(cuts, k) - 1)]

\* parseCSVLine: a quote toggles inQuotes and is dropped, a comma outside
\* quotes ends the field, anything else is appended.  The loop's state at
\* position i: inQuotes is the parity of the quotes before i
inQuotesAt(line, i) ==
  Cardinality({j \in Positions(line, "\"") : j < i}) % 2 = 1

parseCSVLine(line) ==
  LET commas == {i \in Positions(line, ",") : ~inQuotesAt(line, i)}
      raw    == Pieces(line, commas)
  IN  [k \in 1..Len(raw) |-> SelectSeq(raw[k], LAMBDA c : c # "\"")]

\* str.replace(/"/g, '""'), half by half
RECURSIVE doubleQuotes(_)
doubleQuotes(str) ==
  IF Len(str) = 0 THEN <<>>
  ELSE IF Len(str) = 1
       THEN (IF str[1] = "\"" THEN <<"\"", "\"">> ELSE str)
  ELSE doubleQuotes(SubSeq(str, 1, Len(str) \div 2))
       \o doubleQuotes(SubSeq(str, Len(str) \div 2 + 1, Len(str)))

escapeCSV(str) ==
  IF \E i \in 1..Len(str) : str[i] \in {",", "\"", "\n"}
  THEN <<"\"">> \o doubleQuotes(str) \o <<"\"">>
  ELSE str

\* Array.prototype.join
RECURSIVE join(_, _)
join(parts, sep) ==
  IF parts = <<>> THEN <<>>
  ELSE IF Len(parts) = 1 THEN parts[1]
  ELSE parts[1] \o sep \o join(Tail(parts), sep)

\* String.prototype.split('\n')
split(content) == Pieces(content, Positions(content, "\n"))

\* String(n) for the numbers that occur
NumText(n) == << CASE n = 0 -> "0" [] n = 1 -> "1" [] OTHER -> "2" >>

\* Number(text) || 0
TextNum(t) == IF t = <<"1">> THEN 1 ELSE IF t = <<"2">> THEN 2 ELSE 0

BoolText(b) == IF b THEN <<"true">> ELSE <<"false">>

\* JSON.stringify of a string
JSONstring(t) == <<"\"">> \o t \o <<"\"">>

\* JSON.stringify(session.stats)
JSONstats(stats) ==
  <<"{">> \o JSONstring(<<"asked">>) \o <<":">> \o NumText(stats.asked)
  \o <<",">> \o JSONstring(<<"correctFirstTry">>) \o <<":">>
  \o NumText(stats.correctFirstTry)
  \o <<",">> \o JSONstring(<<"retries">>) \o <<":">> \o NumText(stats.retries)
  \o <<",">> \o JSONstring(<<"questionAttempts">>) \o <<":">> \o <<"{">>
  \o (IF stats.questionAttempts = {} THEN <<>>
      ELSE JSONstring(<<"stored_1">>) \o <<":">> \o <<"true">>)
  \o <<"}", "}">>

\* JSON.stringify(session.questions)
JSONquestions(qs) ==
  <<"[">>
  \o join([i \in 1..Len(qs) |->
             <<"{">> \o JSONstring(<<"id">>) \o <<":">> \o JSONstring(qs[i].id)
             \o <<"}">>], <<",">>)
  \o <<"]">>

\* the stats and the question lists sessions are written with
CsvStats ==
  { initialStats,
    [asked |-> 1, correctFirstTry |-> 1, retries |-> 0,
     questionAttempts |-> {<<"stored_1">>}],
    [asked |-> 1, correctFirstTry |-> 0, retries |-> 1,
     questionAttempts |-> {<<"stored_1">>}] }

CsvQuestionLists ==
  { <<>>, << [id |-> <<"stored_1">>] >>,
    << [id |-> <<"stored_1">>], [id |-> <<"f1_q1">>] >> }

\* the question lists and the stats values with their JSON texts
QuestionTexts == { <<v, JSONquestions(v)>> : v \in CsvQuestionLists }

StatsTexts == { <<v, JSONstats(v)>> : v \in CsvStats }

\* JSON.parse: the value whose JSON text this is, or a SyntaxError
JSONparse(text, texts) ==
  IF \E p \in texts : p[2] = text
  THEN [ok |-> TRUE, value |-> (CHOOSE p \in texts : p[2] = text)[1]]
  ELSE [ok |-> FALSE]

\* the uuid of the n-th session
SessionId(n) == << CASE n = 1 -> "id1" [] n = 2 -> "id2" [] OTHER -> "id3" >>

Header == <<"id", ",", "summaryText", ",", "questions", ",",
            "currentQuestionIndex", ",", "stats", ",", "completed", ",",
            "createdAt", ",", "updatedAt">>

\* the line createQuizSession and updateQuizSession build for a session
SessionLine(session) ==
  join(<< escapeCSV(session.id),
          escapeCSV(session.summaryText),
          escapeCSV(JSONquestions(session.questions)),
          escapeCSV(NumText(session.currentQuestionIndex)),
          escapeCSV(JSONstats(session.stats)),
          escapeCSV(BoolText(session.completed)),
          escapeCSV(<<"now">>),
          escapeCSV(<<"now">>) >>, <<",">>)

\* fields[k], the empty text standing for a missing field
Field(fields, k) == IF k <= Len(fields) THEN fields[k] ELSE <<>>

\* the session getQuizSession builds from a line's fields; JSON.parse may
\* throw
SessionOfFields(fields) ==
  LET qs == JSONparse(IF Field(fields, 3) = <<>> THEN <<"[", "]">>
                      ELSE Field(fields, 3), QuestionTexts)
      st == JSONparse(IF Field(fields, 5) = <<>>
                      THEN JSONstats([asked |-> 0, correctFirstTry |-> 0,
                                      retries |-> 0, questionAttempts |-> {}])
                      ELSE Field(fields, 5), StatsTexts)
  IN  IF qs.ok /\ st.ok
      THEN [found |-> TRUE,
            session |-> [id |-> Field(fields, 1),
                         summaryText |-> Field(fields, 2),
                         questions |-> qs.value,
                         currentQuestionIndex |-> TextNum(Field(fields, 4)),
                         stats |-> st.value,
                         completed |-> (Field(fields, 6) = <<"true">>)]]
      ELSE [found |-> FALSE]

\* CSVStorage.getQuizSession: the first data line whose first field is the
\* id; an exception while building the session is caught, the result is
\* undefined
RECURSIVE scanSessions(_, _, _)
scanSessions(lines, i, id) ==
  IF i > Len(lines) THEN [found |-> FALSE]
  ELSE IF Field(parseCSVLine(lines[i]), 1) = id
       THEN SessionOfFields(parseCSVLine(lines[i]))
  ELSE scanSessions(lines, i + 1, id)

CSVgetQuizSession(content, id) ==
  scanSessions(Tail(split(trim(content))), 1, id)

\* CSVStorage.createQuizSession: the new session and the file after
\* appendFile
CSVcreatedSession(id, summaryText, qs) ==
  [id |-> id, summaryText |-> summaryText, questions |-> qs,
   currentQuestionIndex |-> 0, stats |-> initialStats, completed |-> FALSE]

CSVcreateQuizSession(content, id, summaryText, qs) ==
  content \o SessionLine(CSVcreatedSession(id, summaryText, qs)) \o <<"\n">>

\* CSVStorage.updateQuizSession when the session was found: every data line
\* whose first field is the id is replaced, the file is rewritten
CSVrewrite(content, updatedSession) ==
  LET lines == split(trim(content))
      updatedLines ==
        [i \in 1..(Len(lines) - 1) |->
           IF Field(parseCSVLine(lines[i + 1]), 1) = updatedSession.id
           THEN SessionLine(updatedSession) ELSE lines[i + 1]]
  IN  lines[1] \o <<"\n">> \o join(updatedLines, <<"\n">>) \o <<"\n">>

\* summary texts: the sentinel, a text with a comma, a text with a line feed
CsvSummaries == { <<"Laedt">>, <<"a", ",", "b">>, <<"a", "\n", "b">> }

\* what callers pass to updateQuizSession: stats (answer route),
\* completed (progress route), summaryText and questions (background task)
CsvUpdates ==
  { [stats |-> s] : s \in CsvStats }
  \cup { [completed |-> TRUE] }
  \cup { [summaryText |-> t, questions |-> q] :
           t \in CsvSummaries, q \in CsvQuestionLists }

CsvInit ==
  /\ backend = "csv"
  /\ questions = <<>>
  /\ usage = <<>>
  /\ sessions = <<>>
  /\ up = UpIdle
  /\ ans = [h \in 1..MaxConcurrent |-> Idle]
  /\ prog = Idle
  /\ hist = {}
  /\ nUploads = 0
  /\ nProgress = 0
  /\ req = <<>>
  /\ overlapped = FALSE
  /\ gr = Idle
  /\ csv = [pc |-> "on", content |-> Header \o <<"\n">>, written |-> <<>>,
            last |-> [op |-> "init"], ops |-> 0]
  /\ call = Idle
  /\ topics = Idle

CsvFrame ==
  UNCHANGED <<backend, questions, usage, sessions, up, ans, prog, hist,
              nUploads, nProgress, req, overlapped, gr, call, topics>>

\* createQuizSession; written remembers the stats and completed last
\* written for each session, and whether an update of it was called
CsvCreate(summaryText, qs) ==
  /\ csv.pc = "on"
  /\ csv.ops < MaxCsvOps
  /\ Len(csv.written) < MaxCsvSessions
  /\ csv' = [csv EXCEPT
               !.ops = @ + 1,
               !.content = CSVcreateQuizSession(@, SessionId(Len(csv.written) + 1),
                                                summaryText, qs),
               !.written = Append(@, [stats |-> initialStats,
                                      completed |-> FALSE, updated |-> FALSE]),
               !.last = [op |-> "create", n |-> Len(csv.written) + 1,
                         summaryText |-> summaryText, questions |-> qs]]
  /\ CsvFrame

\* updateQuizSession: throws when getQuizSession returns undefined
CsvUpdate(n, updates) ==
  /\ csv.pc = "on"
  /\ csv.ops < MaxCsvOps
  /\ n \in 1..Len(csv.written)
  /\ LET got == CSVgetQuizSession(csv.content, SessionId(n))
     IN  IF got.found
         THEN LET updatedSession == ApplyUpdates(got.session, updates)
              IN  csv' = [csv EXCEPT
                            !.ops = @ + 1,
                            !.content = CSVrewrite(@, updatedSession),
                            !.written[n] = [stats |-> updatedSession.stats,
                                            completed |-> updatedSession.completed,
                                            updated |-> TRUE],
                            !.last = [op |-> "update", n |-> n, threw |-> FALSE]]
         ELSE csv' = [csv EXCEPT
                        !.ops = @ + 1,
                        !.written[n].updated = TRUE,
                        !.last = [op |-> "update", n |-> n, threw |-> TRUE]]
  /\ CsvFrame

\* getQuizSession
CsvGet(n) ==
  /\ csv.pc = "on"
  /\ csv.ops < MaxCsvOps
  /\ n \in 1..Len(csv.written)
  /\ csv' = [csv EXCEPT
               !.ops = @ + 1,
               !.last = [op |-> "get", n |-> n,
                         result |-> CSVgetQuizSession(csv.content, SessionId(n))]]
  /\ CsvFrame

CsvNext ==
  \/ \E t \in CsvSummaries, q \in CsvQuestionLists : CsvCreate(t, q)
  \/ \E n \in 1..MaxCsvSessions, u \in CsvUpdates : CsvUpdate(n, u)
  \/ \E n \in 1..MaxCsvSessions : CsvGet(n)

SpecCsv == CsvInit /\ [][CsvNext]_vars

\* C12: updateQuizSession of a created session does not fail with "not
\* found", and a getQuizSession after an update of a created session finds
\* it with the stats and completed last written.
C12_SessionRoundTrip ==
  csv.pc = "on" =>
    /\ csv.last.op = "update" => ~csv.last.threw
    /\ (csv.last.op = "get" /\ csv.written[csv.last.n].updated) =>
         /\ csv.last.result.found
         /\ csv.last.result.session.stats = csv.written[csv.last.n].stats
         /\ csv.last.result.session.completed =
              csv.written[csv.last.n].completed

UploadNext ==
  \/ \E t \in AllowedTotals, f \in 1..MaxUploadFiles : UploadStart(t, f)
  \/ UploadRejected
  \/ FileRejected
  \/ GeneratorFails
  \/ \E raw \in Completions : GeneratorReturns(raw)
  \/ UploadCreateSession
  \/ FillRun
  \/ FillWrite
  \/ FillFails

SpecUpload == Init /\ [][UploadNext]_vars

\* the upload request has ended with an error response
UploadError ==
  /\ up.pc = "idle"
  /\ "status" \in DOMAIN up
  /\ up.status # 200

\* C14: an upload request that meets a validation failure or a generation
\* error for any of its files ends at once with an error response (400 or
\* 500, no sessionId), and no session has been created since it began.
C14_FailedUploadCreatesNoSession ==
  /\ ("failed" \in DOMAIN up /\ up.failed) =>
       (UploadError /\ up.status \in {400, 500})
  /\ UploadError =>
       (up.failed /\ ~("sessionId" \in DOMAIN up)
          /\ Len(sessions) = up.startLen)

\* the second file's generation failed after the first file's questions
\* were stored
C14_Witness ==
  /\ UploadError
  /\ up.status = 500
  /\ questions # <<>>
  /\ Len(sessions) = up.startLen

\* ------------------------------------------ the totalQuestions body field

Digits == <<"0", "1", "2", "3", "4", "5", "6", "7", "8", "9">>

IsDigit(c) == \E d \in 1..Len(Digits) : Digits[d] = c

DigitValue(c) == (CHOOSE d \in 1..Len(Digits) : Digits[d] = c) - 1

\* the characters a submitted totalQuestions field is built from
BodyChars == { Digits[d] : d \in 1..Len(Digits) } \cup {"a", " ", "-"}

BodyTexts == UNION { [1..n -> BodyChars] : n \in 0..MaxBodyLen }

\* req.body.totalQuestions: undefined when the field is absent, else a string
BodyValues ==
  { [present |-> FALSE, text |-> <<>>] }
    \cup { [present |-> TRUE, text |-> t] : t \in BodyTexts }

\* the length of the longest prefix of t made of digits
DigitPrefix(t) ==
  CHOOSE n \in 0..Len(t) :
    /\ \A j \in 1..n : IsDigit(t[j])
    /\ n < Len(t) => ~IsDigit(t[n + 1])

RECURSIVE DecimalValue(_)
DecimalValue(t) ==
  IF t = <<>> THEN 0
  ELSE 10 * DecimalValue(SubSeq(t, 1, Len(t) - 1)) + DigitValue(t[Len(t)])

\* parseInt(text, 10): leading white space is skipped, a sign is read, then
\* the longest run of digits; NaN when there is no digit
parseInt(text) ==
  LET t      == trimStart(text)
      neg    == t # <<>> /\ Head(t) = "-"
      rest   == IF neg THEN Tail(t) ELSE t
      n      == DigitPrefix(rest)
      v      == DecimalValue(SubSeq(rest, 1, n))
  IN  IF n = 0 THEN [nan |-> TRUE, n |-> 0]
      ELSE [nan |-> FALSE, n |-> IF neg THEN 0 - v ELSE v]

PermittedTotals == {25, 50, 75, 100}

DefaultTotal == 30

\* let totalQuestions = 30; if (req.body.totalQuestions) { parseInt;
\* if (![25, 50, 75, 100].includes(totalQuestions)) return 400 }
\* (a string is truthy unless it is empty)
parseTotalQuestions(body) ==
  IF body.present /\ body.text # <<>>
  THEN LET v == parseInt(body.text)
       IN  IF ~v.nan /\ v.n \in PermittedTotals
           THEN [status |-> 200, totalQuestions |-> v.n]
           ELSE [status |-> 400, totalQuestions |-> 0]
  ELSE [status |-> 200, totalQuestions |-> DefaultTotal]

TotalInit ==
  /\ backend = "csv"
  /\ questions = <<>>
  /\ usage = <<>>
  /\ sessions = <<>>
  /\ up = UpIdle
  /\ ans = [h \in 1..MaxConcurrent |-> Idle]
  /\ prog = Idle
  /\ hist = {}
  /\ nUploads = 0
  /\ nProgress = 0
  /\ req = <<>>
  /\ overlapped = FALSE
  /\ gr = Idle
  /\ csv = Idle
  /\ call \in { [pc |-> "input", body |-> b] : b \in BodyValues }
  /\ topics = Idle

\* the route reads the field of the drawn request
TotalApply ==
  /\ call.pc = "input"
  /\ call' = [pc |-> "done", body |-> call.body,
              result |-> parseTotalQuestions(call.body)]
  /\ UNCHANGED <<backend, questions, usage, sessions, up, ans, prog, hist,
                 nUploads, nProgress, req, overlapped, gr, csv, topics>>

TotalNext == TotalApply

SpecTotal == TotalInit /\ [][TotalNext]_vars

\* C16: every upload request that passes the totalQuestions check goes on
\* with a total in {25, 50, 75, 100}, and a request whose field is anything
\* other than one of these four numbers is answered 400.
C16_TotalIsPermitted ==
  call.pc = "done" =>
    /\ call.result.status = 200 =>
         call.result.totalQuestions \in PermittedTotals
    /\ ~(call.body.present /\ ~parseInt(call.body.text).nan
           /\ parseInt(call.body.text).n \in PermittedTotals) =>
         call.result.status = 400

\* a step in which handler h ends a request without going on to the
\* stats write; found tells how far the lookups got
EndsEarly(h) ==
  /\ AtRest(h)
  /\ ans'[h] # ans[h]
  /\ ans'[h].pc = "sent"

\* C17: an answer submission whose session id or question id is unknown
\* ends with 404 in a step that leaves the sessions (so their stats), the
\* usage ledger and the stored questions (useCount, lastUsed) as they
\* were, and only a submission whose lookups both succeed goes on.
C17_NotFoundChangesNothing ==
  [][\A h \in Handlers :
       /\ (EndsEarly(h) /\ ans'[h].found # "question") =>
            /\ ans'[h].status = 404
            /\ sessions' = sessions
            /\ usage' = usage
            /\ questions' = questions
       /\ (AtRest(h) /\ ans'[h].pc = "update") =>
            found(sessions, ans'[h].sessionId, ans'[h].questionId) = "question"
    ]_vars

\* a 404 for a question id the existing session does not have, after an
\* earlier answer left a usage event
C17_Witness ==
  \E h \in Handlers :
    /\ ans[h].pc = "sent"
    /\ ans[h].status = 404
    /\ ans[h].found = "session"
    /\ usage # <<>>
    /\ \E s \in 1..Len(sessions) : sessions[s].stats.asked = 1

\* C18: a progress update for a session id that does not exist is
\* answered 404.
C18_MissingSessionIs404 ==
  (prog.pc = "sent" /\ ~prog.known) => prog.status = 404

\* C19: an answer submission whose evaluator call failed is graded by the
\* fallback, its attempt is in the stats it writes, and it ends with a
\* verdict (status 200), never with an error response.
C19_EvaluatorFailureRecovered ==
  [][\A h \in Handlers :
       /\ (EndsEarly(h) /\ ans'[h].found = "question") =>
            ans'[h].status = 200
       /\ (AtRest(h) /\ ans'[h].pc = "update" /\ ans'[h].evalFailed) =>
            /\ ans'[h].verdict.isCorrect =
                 openFallback(ans'[h].answer[1],
                              Find(sessions[ans'[h].sessionId].questions,
                                   ans'[h].questionId).correctAnswer)
            /\ ans'[h].questionId \in ans'[h].stats.questionAttempts
       /\ (ans[h].pc \in {"track", "touch"} /\ ans'[h].pc = "sent") =>
            ans'[h].status = 200
    ]_vars

\* C20: the step that tracks an answer appends one usage event for the
\* stored question, with wasCorrectFirstTry true exactly when the answer
\* was graded correct and the question id was not yet marked as attempted
\* in the stats the request read.
C20_UsageEventFirstTry ==
  [][\A h \in Handlers :
       (ans[h].pc = "track" /\ ans'[h].pc # "track") =>
         /\ Len(usage') = Len(usage) + 1
         /\ usage'[Len(usage')].storedQuestionId = ans[h].storedQuestionId
         /\ usage'[Len(usage')].wasCorrectFirstTry =
              (ans[h].verdict.isCorrect
                 /\ ans[h].questionId \notin ans[h].read.questionAttempts)
    ]_vars

\* a handler in the middle of a request for a question id the stats it
\* read already mark as attempted
LaterAttempt(h) ==
  /\ ans[h].pc \in {"update", "write", "track", "touch"}
  /\ ans[h].questionId \in ans[h].read.questionAttempts

\* C21: for an attempt at a question id already marked in the session's
\* stats, the stats the request writes differ from the stats it read by
\* retries + 1 when the answer is graded incorrect, and not at all when it
\* is graded correct.
C21_LaterAttemptStats ==
  \A h \in Handlers :
    LaterAttempt(h) =>
      /\ ans[h].stats.asked = ans[h].read.asked
      /\ ans[h].stats.correctFirstTry = ans[h].read.correctFirstTry
      /\ ans[h].stats.questionAttempts = ans[h].read.questionAttempts
      /\ ans[h].stats.retries =
           ans[h].read.retries + (IF ans[h].verdict.isCorrect THEN 0 ELSE 1)

C21_Witness ==
  \E h \in Handlers :
    /\ LaterAttempt(h)
    /\ ~ans[h].verdict.isCorrect
    /\ ans[h].pc = "track"
    /\ sessions[ans[h].sessionId].stats.retries = ans[h].read.retries + 1

\* history: the question ids of session s whose first submission was
\* graded correct
FirstTryCorrect(s) ==
  { r.questionId : r \in { x \in hist : x.sessionId = s /\ x.n = 1 /\ x.isCorrect } }

RaceInit ==
  /\ backend \in Backends
  /\ questions = <<>>
  /\ usage = <<>>
  /\ sessions = <<>>
  /\ up = UpIdle
  /\ ans = [h \in 1..MaxRacing |-> Idle]
  /\ prog = Idle
  /\ hist = {}
  /\ nUploads = 0
  /\ nProgress = 0
  /\ req = <<>>
  /\ overlapped = FALSE
  /\ gr = Idle
  /\ csv = Idle
  /\ call = Idle
  /\ topics = Idle

\* the upload route and the answer route, the latter with MaxRacing
\* requests in progress at once
RaceNext ==
  \/ \E t \in AllowedTotals, f \in 1..MaxFiles : UploadStart(t, f)
  \/ \E raw \in Completions : GeneratorReturns(raw)
  \/ UploadCreateSession
  \/ FillRun
  \/ FillWrite
  \/ \E h \in Handlers, sessionId \in 1..Len(sessions) :
       \E i \in 1..Len(sessions[sessionId].questions) :
         \E answer \in AnswerInputs(sessions[sessionId].questions[i].kind),
            ev \in EvalOutcomes :
           AnswerRead(h, sessionId, sessions[sessionId].questions[i].id,
                      answer, ev)
  \/ \E h \in Handlers : AnswerUpdate(h)
  \/ \E h \in Handlers : AnswerWrite(h)
  \/ \E h \in Handlers : AnswerTrack(h)
  \/ \E h \in Handlers : AnswerTouch(h)

SpecRace == RaceInit /\ [][RaceNext]_vars

\* history: the distinct question ids submitted in session s
SubmittedIds(s) == { r.questionId : r \in { x \in hist : x.sessionId = s } }

\* C23: the stats write of an answer submission puts the stats the
\* submission computed from its own read into the session, whatever another
\* submission wrote since that read (last writer wins), so stats.asked
\* never exceeds the number of distinct question ids submitted and can be
\* smaller.
C23_LastWriterWins ==
  [][/\ \A h \in Handlers :
          StatsWritten(h) =>
            sessions'[ans[h].sessionId].stats = ans[h].stats
     /\ \A s \in 1..Len(sessions') :
          sessions'[s].stats.asked <= Cardinality({ r.questionId : r \in { x \in hist' : x.sessionId = s } })
    ]_vars

\* two submissions for different questions overlapped and both are done,
\* the fill was persisted before either began, and asked is 1
C23_Witness ==
  /\ overlapped
  /\ Quiescent
  /\ \E s \in 1..Len(sessions) :
       /\ Cardinality(SubmittedIds(s)) = 2
       /\ sessions[s].stats.asked = 1
       /\ \A r \in hist : r.n = 1
       /\ Len(usage) = 2

Occurrences(qs, x) == Cardinality({i \in 1..Len(qs) : qs[i] = x})

\* the two lists hold the same questions, each as often
IsPermutation(a, b) ==
  /\ Len(a) = Len(b)
  /\ \A x \in Range(a) \cup Range(b) : Occurrences(a, x) = Occurrences(b, x)

\* the review questions followed by the first totalQuestions - (number of
\* review questions) generated questions
ReviewThenNew(u) ==
  u.markedReviewQuestions \o
    SubSeq(u.allQuestions, 1,
           Min(u.totalQuestions - Len(u.markedReviewQuestions),
               Len(u.allQuestions)))

\* C25: the list the background task shuffles and persists is a
\* permutation of the review questions followed by the first
\* totalQuestions - (number of review questions) generated questions: no
\* question is dropped, none is duplicated.
C25_FillIsPermutation ==
  [][/\ (up.pc = "fill" /\ up'.pc # "fill" /\ req'[up.sessionId].fill # "failed") =>
          IsPermutation(IF backend = "db"
                        THEN sessions'[up.sessionId].questions
                        ELSE up'.updates.questions,
                        ReviewThenNew(up))
     /\ (up.pc = "fillwrite" /\ FillPersists) =>
          sessions'[up.sessionId].questions = up.updates.questions
    ]_vars

\* a persisted fill with a new question first and a review question later
C25_Witness ==
  \E s \in 1..Len(sessions) :
    /\ sessions[s].summaryText = Combined
    /\ Len(sessions[s].questions) = MaxTotal
    /\ ~sessions[s].questions[1].isReviewQuestion
    /\ sessions[s].questions[MaxTotal].isReviewQuestion
    /\ req[s].fill = "done"

\* the stored questions that were attempted and have fewer than 2 correct
\* answers in the usage ledger
EligibleIds ==
  { n \in 1..Len(questions) :
      TimesAsked(usage, n) >= 1 /\ CorrectCount(usage, n) < 2 }

\* ascending useCount, then ascending lastUsed; never used (0) comes first
RankedBefore(x, y) ==
  \/ x.useCount < y.useCount
  \/ (x.useCount = y.useCount /\ x.lastUsed < y.lastUsed)

AnyLimits == 0..MaxTotal

\* C27: for every limit from 0 up, every list getReviewQuestions can
\* return has exactly min(limit, number of eligible stored questions)
\* questions, so never more than limit.
C27_ReviewCountIsMin ==
  \A limit \in AnyLimits :
    \A r \in getReviewQuestions(backend, questions, {}, limit) :
      /\ Len(r) <= limit
      /\ Len(r) = Min(limit, Cardinality(EligibleIds))

\* ------------------------------------------------- topics, get-or-create

TopicNames == {"A", "B"}

Callers == 1..MaxCallers

\* the id of the topic record with that name, 0 if there is none
TopicIdOf(rows, name) ==
  IF \E i \in 1..Len(rows) : rows[i].name = name
  THEN rows[CHOOSE i \in 1..Len(rows) :
              rows[i].name = name /\ \A j \in 1..(i - 1) : rows[j].name # name].id
  ELSE 0

\* rows are the topic records, nextId the id the next record gets, calls
\* the extractAndStoreTopic calls in progress, n how many were made
TopicInit ==
  /\ backend \in Backends
  /\ questions = <<>>
  /\ usage = <<>>
  /\ sessions = <<>>
  /\ up = UpIdle
  /\ ans = [h \in 1..MaxConcurrent |-> Idle]
  /\ prog = Idle
  /\ hist = {}
  /\ nUploads = 0
  /\ nProgress = 0
  /\ req = <<>>
  /\ overlapped = FALSE
  /\ gr = Idle
  /\ csv = Idle
  /\ call = Idle
  /\ topics = [pc |-> "on", rows |-> <<>>, nextId |-> 1,
               calls |-> [c \in Callers |-> Idle], n |-> 0]

TopicFrame ==
  UNCHANGED <<backend, questions, usage, sessions, up, ans, prog, hist,
              nUploads, nProgress, req, overlapped, gr, csv, call>>

\* extractAndStoreTopic, first step. DatabaseStorage inserts: the unique
\* constraint on name lets the insert through or raises 23505 (the serial
\* id is used up either way). CSVStorage reads the topics file and returns
\* the record with that name if it finds one
TopicBegin(c, name) ==
  /\ topics.pc = "on"
  /\ topics.calls[c].pc \in {"idle", "done"}
  /\ topics.n < MaxTopicCalls
  /\ IF backend = "db"
     THEN IF TopicIdOf(topics.rows, name) = 0
          THEN topics' = [topics EXCEPT
                 !.rows = Append(@, [id |-> topics.nextId, name |-> name]),
                 !.nextId = @ + 1,
                 !.n = @ + 1,
                 !.calls[c] = [pc |-> "done", name |-> name,
                               id |-> topics.nextId]]
          ELSE topics' = [topics EXCEPT
                 !.nextId = @ + 1,
                 !.n = @ + 1,
                 !.calls[c] = [pc |-> "lookup", name |-> name]]
     ELSE IF TopicIdOf(topics.rows, name) = 0
          THEN topics' = [topics EXCEPT
                 !.n = @ + 1,
                 !.calls[c] = [pc |-> "create", name |-> name]]
          ELSE topics' = [topics EXCEPT
                 !.n = @ + 1,
                 !.calls[c] = [pc |-> "done", name |-> name,
                               id |-> TopicIdOf(topics.rows, name)]]
  /\ TopicFrame

\* DatabaseStorage, after 23505: select the topic with that name
TopicLookup(c) ==
  /\ topics.pc = "on"
  /\ topics.calls[c].pc = "lookup"
  /\ topics' = [topics EXCEPT
       !.calls[c] = [pc |-> "done", name |-> topics.calls[c].name,
                     id |-> TopicIdOf(topics.rows, topics.calls[c].name)]]
  /\ TopicFrame

\* CSVStorage, after the read found nothing: this.nextId.topics++ and
\* appendFile
TopicCreate(c) ==
  /\ topics.pc = "on"
  /\ topics.calls[c].pc = "create"
  /\ topics' = [topics EXCEPT
       !.rows = Append(@, [id |-> topics.nextId,
                           name |-> topics.calls[c].name]),
       !.nextId = @ + 1,
       !.calls[c] = [pc |-> "done", name |-> topics.calls[c].name,
                     id |-> topics.nextId]]
  /\ TopicFrame

TopicNext ==
  \/ \E c \in Callers, name \in TopicNames : TopicBegin(c, name)
  \/ \E c \in Callers : TopicLookup(c)
  \/ \E c \in Callers : TopicCreate(c)

SpecTopic == TopicInit /\ [][TopicNext]_vars

\* C28: there is at most one topic record per name, and the calls that
\* passed the same name and have returned hold the same topic id.
C28_OneTopicPerName ==
  topics.pc = "on" =>
    /\ \A i, j \in 1..Len(topics.rows) :
         topics.rows[i].name = topics.rows[j].name => i = j
    /\ \A c, d \in Callers :
         (/\ topics.calls[c].pc = "done"
          /\ topics.calls[d].pc = "done"
          /\ topics.calls[c].name = topics.calls[d].name) =>
           topics.calls[c].id = topics.calls[d].id

\* ------------------------------------- the generator's output, untrusted

\* the four question types of the application
ValidTypes == {"definition", "case", "assignment", "open"}

\* what a completion may put in a draft's type, and what a request may
\* select: questionTypes is JSON.parse of the body field, any array
DraftTypes == {"definition", "open", "essay"}

SelectedTypes == (SUBSET DraftTypes) \ {{}}

\* a draft's options: missing, a text, or an array of options
NoOptions == [tag |-> "undefined", items |-> <<>>]

TextOptions == [tag |-> "string", items |-> <<>>]

NullOptions == [tag |-> "null", items |-> <<>>]

NullAnswer == <<"null">>

ArrayOf(items) == [tag |-> "array", items |-> items]

DraftOptions ==
  { NoOptions, TextOptions, ArrayOf(<<>>),
    ArrayOf(<< [id |-> "a", isCorrect |-> FALSE] >>),
    ArrayOf(<< [id |-> "a", isCorrect |-> TRUE],
               [id |-> "b", isCorrect |-> FALSE] >>),
    ArrayOf(<< [id |-> "a", isCorrect |-> FALSE],
               [id |-> "b", isCorrect |-> FALSE] >>) }

Drafts ==
  [type : DraftTypes, options : DraftOptions,
   correctAnswer : {ModelAnswer, Undefined}]

DraftLists == UNION { [1..n -> Drafts] : n \in 0..MaxDrafts }

\* the filter without the check of the options
keepDraft_anyOptions(q, questionTypes) ==
  /\ q.type \in questionTypes
  /\ q.type \in ValidTypes

\* generateQuestionsFromText, the filter: the type is one of the selected
\* types, a type other than open comes with a non-empty array of options,
\* and the type is one of the four types
keepDraft(q, questionTypes) ==
  /\ q.type \in questionTypes
  /\ ~ (q.type # "open" /\ (q.options.tag # "array" \/ q.options.items = <<>>))
  /\ q.type \in ValidTypes

\* generateQuestionsFromText from the completion on: filter, then map
\* (type, options and correctAnswer are copied), an error if nothing is left
generateQuestions(drafts, questionTypes) ==
  [questions |-> SelectSeq(drafts, LAMBDA q : keepDraft(q, questionTypes)),
   error |-> SelectSeq(drafts, LAMBDA q : keepDraft(q, questionTypes)) = <<>>]

\* x || null
OrNull(x, undefined, null) ==
  IF x = undefined THEN null ELSE x

\* storeQuestion: the fields of the stored question taken from the question
storedFields(question) ==
  [type |-> question.type,
   options |-> OrNull(question.options, NoOptions, NullOptions),
   correctAnswer |-> OrNull(question.correctAnswer, Undefined, NullAnswer)]

DraftInit ==
  /\ backend \in Backends
  /\ questions = <<>>
  /\ usage = <<>>
  /\ sessions = <<>>
  /\ up = UpIdle
  /\ ans = [h \in 1..MaxConcurrent |-> Idle]
  /\ prog = Idle
  /\ hist = {}
  /\ nUploads = 0
  /\ nProgress = 0
  /\ req = <<>>
  /\ overlapped = FALSE
  /\ gr = Idle
  /\ csv = Idle
  /\ call \in { [pc |-> "completion", questionTypes |-> t, drafts |-> d] :
                  t \in SelectedTypes, d \in DraftLists }
  /\ topics = Idle

DraftFrame ==
  UNCHANGED <<backend, questions, usage, sessions, up, ans, prog, hist,
              nUploads, nProgress, req, overlapped, gr, csv, topics>>

\* generateQuestionsFromText returns to the route
DraftGenerate ==
  /\ call.pc = "completion"
  /\ call' = [pc |-> "generated", questionTypes |-> call.questionTypes,
              drafts |-> call.drafts,
              result |-> generateQuestions(call.drafts, call.questionTypes)]
  /\ DraftFrame

\* if (generationResult.error) return res.status(500)
DraftError ==
  /\ call.pc = "generated"
  /\ call.result.error
  /\ call' = [pc |-> "done", questionTypes |-> call.questionTypes,
              drafts |-> call.drafts, status |-> 500,
              stored |-> <<>>, allQuestions |-> <<>>]
  /\ DraftFrame

\* the route's loop over generationResult.questions: a question whose type
\* is not selected is skipped, the others are stored and become session
\* questions
DraftStore ==
  /\ call.pc = "generated"
  /\ ~ call.result.error
  /\ LET kept == SelectSeq(call.result.questions,
                           LAMBDA q : q.type \in call.questionTypes)
     IN call' = [pc |-> "done", questionTypes |-> call.questionTypes,
                 drafts |-> call.drafts,
                 status |-> IF kept = <<>> THEN 500 ELSE 200,
                 stored |-> [k \in 1..Len(kept) |-> storedFields(kept[k])],
                 allQuestions |-> kept]
  /\ DraftFrame

DraftNext ==
  \/ DraftGenerate
  \/ DraftError
  \/ DraftStore

SpecDraft == DraftInit /\ [][DraftNext]_vars

\* a question has a selected type and, unless open, at least one option
TypedWithOptions(q, questionTypes) ==
  /\ q.type \in questionTypes
  /\ q.type # "open" => (q.options.tag = "array" /\ Len(q.options.items) >= 1)

\* C29: whatever the generator returns, every fresh question that is stored
\* or put into the session has a type among the selected question types
\* and, when its type is not open, at least one option.
C29_FreshQuestionsAreFiltered ==
  call.pc = "done" =>
    /\ \A k \in 1..Len(call.stored) :
         TypedWithOptions(call.stored[k], call.questionTypes)
    /\ \A k \in 1..Len(call.allQuestions) :
         TypedWithOptions(call.allQuestions[k], call.questionTypes)

\* a draft was dropped and another was stored
C29_Witness ==
  /\ call.pc = "done"
  /\ Len(call.stored) = 1
  /\ Len(call.drafts) = 2
  /\ \E k \in 1..2 : call.drafts[k].type # "open"
                     /\ call.drafts[k].type \in call.questionTypes
                     /\ call.drafts[k].options.tag # "array"

\* C30: every stored question of type open has a correctAnswer and no
\* options; every stored question of another type has at least 2 options,
\* at least one of them marked correct, and no correctAnswer.
C30_StoredQuestionShape ==
  call.pc = "done" =>
    \A k \in 1..Len(call.stored) :
      LET q == call.stored[k] IN
        IF q.type = "open"
        THEN /\ q.correctAnswer # NullAnswer
             /\ q.options.items = <<>>
        ELSE /\ Len(q.options.items) >= 2
             /\ \E i \in 1..Len(q.options.items) : q.options.items[i].isCorrect
             /\ q.correctAnswer = NullAnswer

\* ------------------------------------------------- sessions as snapshots

C32_UsageLedgerAppendOnly ==
  [][/\ \/ usage' = usage
        \/ /\ Len(usage') = Len(usage) + 1
           /\ SubSeq(usage', 1, Len(usage)) = usage
     /\ \A h \in Handlers :
          (ans'[h] # ans[h] /\ ans'[h].pc = "touch") =>
            Len(usage') = Len(usage) + 1
     /\ \A h \in Handlers :
          (/\ ans'[h] # ans[h]
           /\ ans'[h].pc = "sent"
           /\ ans'[h].found = "question") =>
            (ans[h].pc = "touch" \/ Len(usage') = Len(usage) + 1)]_vars

\* ------------------------------------------------ the sessions file, read

\* the data lines of the sessions file as getQuizSession splits it
DataLines(content) == Tail(split(trim(content)))

\* C33: a session record that cannot be parsed is deleted from the store,
\* and a read of it returns not-found: after a getQuizSession that found
\* nothing, no line of the file carries the session's id.
C33_CorruptRecordIsDeleted ==
  csv.pc = "on" =>
    ((csv.last.op = "get" /\ ~csv.last.result.found) =>
       \A i \in 1..Len(DataLines(csv.content)) :
         Field(parseCSVLine(DataLines(csv.content)[i]), 1)
           # SessionId(csv.last.n))

\* C35: a session that was created is never lost: getQuizSession of the id
\* createQuizSession returned finds the session.
C35_CreatedSessionIsFound ==
  csv.pc = "on" => (csv.last.op = "get" => csv.last.result.found)

\* C40: the field encoding round-trips: the record createQuizSession wrote
\* is one line of the file, and parseCSVLine of that line returns the field
\* values that were written.
C40_FieldsRoundTrip ==
  csv.pc = "on" =>
    (csv.last.op = "create" =>
       /\ Len(DataLines(csv.content)) = Len(csv.written)
       /\ parseCSVLine(DataLines(csv.content)[Len(DataLines(csv.content))])
            = << SessionId(csv.last.n), csv.last.summaryText,
                 JSONquestions(csv.last.questions), NumText(0),
                 JSONstats(initialStats), BoolText(FALSE),
                 <<"now">>, <<"now">> >>)

\* ------------------------------------------- the fill and the progress

\* C36: the background fill leaves the questions at the indices below the
\* session's currentQuestionIndex as they are, so a question the client
\* has passed is not moved behind the index and shown again.
C36_FillKeepsPassedQuestions ==
  [][(up.pc \in {"fill", "fillwrite"} /\ up'.pc = "idle") =>
       \A s \in 1..Len(sessions) :
         \A i \in 1..sessions[s].currentQuestionIndex :
           i <= Len(sessions[s].questions) =>
             /\ i <= Len(sessions'[s].questions)
             /\ sessions'[s].questions[i] = sessions[s].questions[i]]_vars

\* ------------------------------------------------- the fill, eventually

\* uploads, the background task and progress updates, no storage failure
LiveNext ==
  \/ \E t \in AllowedTotals, f \in 1..MaxFiles : UploadStart(t, f)
  \/ \E raw \in Completions : GeneratorReturns(raw)
  \/ UploadCreateSession
  \/ FillRun
  \/ FillWrite
  \/ \E sessionId \in 1..Len(sessions) :
       \E u \in ProgressInputs(sessions[sessionId]) :
         ProgressStart(sessionId, u)
  \/ ProgressWrite

\* the callback setImmediate scheduled runs, and an awaited storage call
\* that does not fail completes
SpecLive ==
  /\ Init
  /\ [][LiveNext]_vars
  /\ WF_vars(FillRun)
  /\ WF_vars(FillWrite)
  /\ WF_vars(ProgressWrite)

\* the status endpoint reports isLoading = false for the s-th session
Loaded(s) == Len(sessions) >= s /\ ~ statusOf(sessions[s]).isLoading

C39_FailedUploadStoresNothing ==
  UploadError => Len(questions) = up.startStored

====
